---------------------------- MODULE Spec2Model ----------------------------
(***************************************************************************)
(* A model of epstein.c: the LinkedIn-contact / Epstein-files search       *)
(* pipeline (CSV parser, rate-limited search client, qsort aggregation,    *)
(* HTML report).                                                           *)
(*                                                                         *)
(* Text is modelled as a sequence of one-character strings, so that the    *)
(* character-level code (CSV field splitting, atoi, HTML escaping) is      *)
(* modelled by what it does.  The running delay is a C double holding      *)
(* seconds; every value it takes is a multiple of 0.25, so it is modelled  *)
(* as an integer number of quarter seconds.                                *)
(***************************************************************************)
EXTENDS Integers, Sequences, FiniteSets, TLC

(* ------------------------------------------------------------------ *)
(* Bounds of the model                                                  *)
(* ------------------------------------------------------------------ *)

\* the longest contact list of a run
MaxContacts == 2

\* the most 429 responses the upstream gives in one run
MaxRetries == 2

\* the longest generated data row of a CSV input
MaxRowLen == 4

(* ------------------------------------------------------------------ *)
(* Program constants                                                    *)
(* ------------------------------------------------------------------ *)

MAX_FIELD == 512

MAX_HITS == 100

\* sizeof(Hit.content_preview)
PREVIEW_BUF == 2048

\* the report shows at most this many characters of a preview
PREVIEW_SHOWN == 500

\* fields[20][MAX_FIELD]
MAX_COLS == 20

\* quarter seconds per second: the unit of delay
TicksPerSecond == 4

\* double delay = 0.25
InitialDelay == 1

(* ------------------------------------------------------------------ *)
(* Text helpers                                                         *)
(* ------------------------------------------------------------------ *)

Min(a, b) == IF a <= b THEN a ELSE b

\* strncpy(dst, src, n) into a zeroed buffer: the first n characters
StrNCpy(src, n) == SubSeq(src, 1, Min(Len(src), n))

\* the concatenation of ss[lo..hi], by halves (the recursion stays shallow)
RECURSIVE ConcatRange(_, _, _)
ConcatRange(ss, lo, hi) ==
    IF lo > hi THEN <<>>
    ELSE IF lo = hi THEN ss[lo]
    ELSE LET mid == (lo + hi) \div 2
         IN  ConcatRange(ss, lo, mid) \o ConcatRange(ss, mid + 1, hi)

Concat(ss) == ConcatRange(ss, 1, Len(ss))

\* strstr(hay, needle) != NULL
IsSubstringAt(hay, needle, k) ==
    /\ k + Len(needle) - 1 <= Len(hay)
    /\ SubSeq(hay, k, k + Len(needle) - 1) = needle

Contains(hay, needle) == \E k \in 1..(Len(hay) + 1) : IsSubstringAt(hay, needle, k)

(* ------------------------------------------------------------------ *)
(* html_escape_to                                                       *)
(* ------------------------------------------------------------------ *)

EntityMissingQuote(c) ==
    CASE c = "&"  -> <<"&", "a", "m", "p", ";">>
      [] c = "<"  -> <<"&", "l", "t", ";">>
      [] c = ">"  -> <<"&", "g", "t", ";">>
      [] c = "\"" -> <<"&", "q", "u", "o", "t", ";">>
      [] OTHER    -> <<c>>

\* one character as html_escape_to writes it
Entity(c) ==
    CASE c = "&"  -> <<"&", "a", "m", "p", ";">>
      [] c = "<"  -> <<"&", "l", "t", ";">>
      [] c = ">"  -> <<"&", "g", "t", ";">>
      [] c = "\"" -> <<"&", "q", "u", "o", "t", ";">>
      [] c = "'"  -> <<"&", "#", "3", "9", ";">>
      [] OTHER    -> <<c>>

\* the characters html_escape_to(f, str) appends to f
html_escape_to(str) == Concat([k \in 1..Len(str) |-> Entity(str[k])])

(* ------------------------------------------------------------------ *)
(* Retry-After header parsing                                           *)
(* ------------------------------------------------------------------ *)

Digits == <<"0", "1", "2", "3", "4", "5", "6", "7", "8", "9">>

IsDigit(c) == \E d \in 1..10 : Digits[d] = c

DigitVal(c) == (CHOOSE d \in 1..10 : Digits[d] = c) - 1

\* isspace
IsSpace(c) == c \in {" ", "\t", "\n", "\r", "\f"}

\* the digits of s from position k on, accumulated as strtol does
RECURSIVE AtoiDigits(_, _, _)
AtoiDigits(s, k, acc) ==
    IF k <= Len(s) /\ IsDigit(s[k])
    THEN AtoiDigits(s, k + 1, acc * 10 + DigitVal(s[k]))
    ELSE acc

RECURSIVE SkipSpaces(_, _)
SkipSpaces(s, k) == IF k <= Len(s) /\ IsSpace(s[k]) THEN SkipSpaces(s, k + 1) ELSE k

\* atoi: leading white space, an optional sign, then digits; 0 when there are none
atoi(s) ==
    LET k == SkipSpaces(s, 1)
    IN  IF k <= Len(s) /\ s[k] = "-" THEN -AtoiDigits(s, k + 1, 0)
        ELSE IF k <= Len(s) /\ s[k] = "+" THEN AtoiDigits(s, k + 1, 0)
        ELSE AtoiDigits(s, k, 0)

\* tolower, for the letters of a header name
ToLower(c) ==
    CASE c = "R" -> "r" [] c = "E" -> "e" [] c = "T" -> "t" [] c = "Y" -> "y"
      [] c = "A" -> "a" [] c = "F" -> "f" [] c = "C" -> "c" [] c = "O" -> "o"
      [] c = "N" -> "n" [] c = "W" -> "w" [] c = "D" -> "d" [] OTHER -> c

LowerCase(s) == [k \in 1..Len(s) |-> ToLower(s[k])]

RETRY_AFTER == <<"R", "e", "t", "r", "y", "-", "A", "f", "t", "e", "r", ":">>

\* strncasecmp(buffer, "Retry-After:", 12) == 0
IsRetryAfterLine(buffer) ==
    /\ Len(buffer) >= 12
    /\ LowerCase(SubSeq(buffer, 1, 12)) = LowerCase(RETRY_AFTER)

\* header_cb: retry_after_value after one header line, given it before
header_cb(value, buffer) ==
    IF Len(buffer) > 12 /\ IsRetryAfterLine(buffer)
    THEN atoi(SubSeq(buffer, 13, Len(buffer)))
    ELSE value

\* retry_after_value once curl has passed every header line of a response
RECURSIVE HeadersSeen(_, _)
HeadersSeen(value, lines) ==
    IF lines = <<>> THEN value
    ELSE HeadersSeen(header_cb(value, Head(lines)), Tail(lines))

DelayAfter429_KeepLarger(delay, rav) ==
    IF rav > 0 /\ rav * TicksPerSecond > delay THEN rav * TicksPerSecond ELSE delay * 2

\* the 429 branch: delay = retry_after_value, or delay *= 2
DelayAfter429(delay, rav) ==
    IF rav > 0 THEN rav * TicksPerSecond ELSE delay * 2

\* delay * 1000000 for a delay of one quarter second, in units of 16 us
USEC16_PER_TICK == 15625

\* the values of unsigned, 2^32 of them, in units of 16 us
UINT_RANGE16 == 268435456

\* (unsigned)(delay * 1000000), in units of 16 us.  A product that unsigned
\* cannot hold makes the conversion undefined: builds reduce it modulo 2^32
\* (x86-64) or saturate it at UINT_MAX (AArch64).
usleep_arg(delay) ==
    IF delay * USEC16_PER_TICK < UINT_RANGE16
    THEN { delay * USEC16_PER_TICK }
    ELSE { (delay * USEC16_PER_TICK) % UINT_RANGE16,
           UINT_RANGE16 - 1 }     \* UINT_MAX, rounded down to a unit

(* ------------------------------------------------------------------ *)
(* The upstream's JSON, as cJSON sees it                                *)
(* ------------------------------------------------------------------ *)

\* (int)valuedouble, the double given in tenths: truncation toward zero
DoubleToInt(tenths) == IF tenths >= 0 THEN tenths \div 10 ELSE -((-tenths) \div 10)

JAbsent == [t |-> "absent", s |-> <<>>]
JString(s) == [t |-> "string", s |-> s]
JNumberItem == [t |-> "number", s |-> <<>>]

NoTotal == [t |-> "absent", tenths |-> 0]
StringTotal == [t |-> "string", tenths |-> 0]
NumberTotal(tenths) == [t |-> "number", tenths |-> tenths]

NoHits == [t |-> "absent", items |-> <<>>]
ObjectHits == [t |-> "object", items |-> <<>>]
ArrayHits(items) == [t |-> "array", items |-> items]

NoData == [present |-> FALSE, totalHits |-> NoTotal, hits |-> NoHits]
Data(th, ha) == [present |-> TRUE, totalHits |-> th, hits |-> ha]

\* a body cJSON_Parse rejects
InvalidJson == [json |-> "invalid", success |-> "absent", data |-> NoData]
JsonObject(success, data) == [json |-> "object", success |-> success, data |-> data]

ZeroHit == [content_preview |-> <<>>, file_path |-> <<>>]

\* one element of the hits array as the loop of lines 414-429 stores it
HitFrom(item) ==
    LET preview == IF item.content_preview.t = "string"
                   THEN item.content_preview ELSE item.content
    IN  [content_preview |-> IF preview.t = "string"
                             THEN StrNCpy(preview.s, PREVIEW_BUF - 1) ELSE <<>>,
         file_path       |-> IF item.file_path.t = "string"
                             THEN StrNCpy(item.file_path.s, MAX_FIELD - 1) ELSE <<>>]

\* result->hits after lines 407-430: the first MAX_HITS elements, in array order
HitsKept(ha) ==
    IF ha.t = "array"
    THEN [k \in 1..Min(Len(ha.items), MAX_HITS) |-> HitFrom(ha.items[k])]
    ELSE <<>>

\* result->total_mentions after lines 403-405
TotalFrom(th) == IF th.t = "number" THEN DoubleToInt(th.tenths) ELSE 0

\* the body of a 200 response read into the result (lines 396-434)
ParseBody(r, body) ==
    IF body.json = "object" /\ body.success = "true" /\ body.data.present
    THEN [r EXCEPT !.total_mentions = TotalFrom(body.data.totalHits),
                   !.hits = HitsKept(body.data.hits),
                   !.num_hits = Len(HitsKept(body.data.hits))]
    ELSE r

(* ------------------------------------------------------------------ *)
(* Contacts and results                                                 *)
(* ------------------------------------------------------------------ *)

\* a Contact as lines 307-316 fill it
MkContact(first, last, company, position) ==
    [first_name |-> StrNCpy(first, MAX_FIELD - 1),
     last_name  |-> StrNCpy(last, MAX_FIELD - 1),
     full_name  |-> StrNCpy(first \o <<" ">> \o last, MAX_FIELD - 1),
     company    |-> StrNCpy(company, MAX_FIELD - 1),
     position   |-> StrNCpy(position, MAX_FIELD - 1)]

\* an element of calloc(num_contacts, sizeof(Result))
ZeroResult ==
    [name |-> <<>>, first_name |-> <<>>, last_name |-> <<>>, company |-> <<>>,
     position |-> <<>>, total_mentions |-> 0, hits |-> <<>>, num_hits |-> 0]

\* the Result slot after lines 730-735 and 347-349
NewResult(c) ==
    [name           |-> StrNCpy(c.full_name, MAX_FIELD - 1),
     first_name     |-> StrNCpy(c.first_name, MAX_FIELD - 1),
     last_name      |-> StrNCpy(c.last_name, MAX_FIELD - 1),
     company        |-> StrNCpy(c.company, MAX_FIELD - 1),
     position       |-> StrNCpy(c.position, MAX_FIELD - 1),
     total_mentions |-> 0,
     hits           |-> <<>>,
     num_hits       |-> 0]

\* The Result struct has no error member: whatever the outcome of the
\* request, the error a consumer of a Result can read is absent.
ResultError(r) == "null"

(* ------------------------------------------------------------------ *)
(* CSV parsing                                                          *)
(* ------------------------------------------------------------------ *)

\* *p of a C string: the empty string stands for the terminating NUL
CharAt(line, p) == IF p >= 1 /\ p <= Len(line) THEN line[p] ELSE ""

\* the quoted branch of parse_csv_field (lines 189-201), from p with out so far
RECURSIVE QuotedField(_, _, _, _)
QuotedField(line, p, field, max_len) ==
    IF CharAt(line, p) # "" /\ Len(field) < max_len - 1
    THEN IF CharAt(line, p) = "\""
         THEN IF CharAt(line, p + 1) = "\""
              THEN QuotedField(line, p + 2, Append(field, "\""), max_len)
              ELSE [field |-> field, p |-> p + 1]
         ELSE QuotedField(line, p + 1, Append(field, line[p]), max_len)
    ELSE [field |-> field, p |-> p]

\* the unquoted branch (lines 203-204)
RECURSIVE PlainField(_, _, _, _)
PlainField(line, p, field, max_len) ==
    IF CharAt(line, p) \notin {"", ",", "\n", "\r"} /\ Len(field) < max_len - 1
    THEN PlainField(line, p + 1, Append(field, line[p]), max_len)
    ELSE [field |-> field, p |-> p]

\* parse_csv_field: the field read at p, and where the next one starts (0: NULL)
parse_csv_field(line, p, max_len) ==
    LET got == IF CharAt(line, p) = "\""
               THEN QuotedField(line, p + 1, <<>>, max_len)
               ELSE PlainField(line, p, <<>>, max_len)
    IN  [field |-> got.field,
         next  |-> IF CharAt(line, got.p) = "," THEN got.p + 1 ELSE 0]

\* find_column from p on, col fields already passed: the column's index or -1
RECURSIVE FindColumnFrom(_, _, _, _)
FindColumnFrom(header, name, p, col) ==
    LET f == parse_csv_field(header, p, MAX_FIELD)
    IN  IF f.field = name THEN col
        ELSE IF f.next = 0 THEN -1
        ELSE FindColumnFrom(header, name, f.next, col + 1)

find_column(header, name) == FindColumnFrom(header, name, 1, 0)

\* the fields of a data row (lines 275-281): at most MAX_COLS of them
RECURSIVE SplitFrom(_, _, _)
SplitFrom(line, p, fields) ==
    LET f == parse_csv_field(line, p, MAX_FIELD)
    IN  IF f.next = 0 \/ Len(fields) + 1 >= MAX_COLS
        THEN Append(fields, f.field)
        ELSE SplitFrom(line, f.next, Append(fields, f.field))

SplitRow(line) == SplitFrom(line, 1, <<>>)

\* a line without its trailing \n and \r (lines 267-269)
RECURSIVE Chomp(_)
Chomp(line) ==
    IF line # <<>> /\ line[Len(line)] \in {"\n", "\r"}
    THEN Chomp(SubSeq(line, 1, Len(line) - 1))
    ELSE line

RECURSIVE SkipLeadingSpaces(_)
SkipLeadingSpaces(str) ==
    IF str # <<>> /\ Head(str) = " " THEN SkipLeadingSpaces(Tail(str)) ELSE str

RECURSIVE DropTrailingSpaces(_)
DropTrailingSpaces(str) ==
    IF str # <<>> /\ str[Len(str)] = " "
    THEN DropTrailingSpaces(SubSeq(str, 1, Len(str) - 1))
    ELSE str

\* the text before the first comma (strchr, then *comma = 0)
CutAtComma(str) ==
    IF \E k \in 1..Len(str) : str[k] = ","
    THEN SubSeq(str, 1, (CHOOSE k \in 1..Len(str) :
                           str[k] = "," /\ \A j \in 1..(k - 1) : str[j] # ",") - 1)
    ELSE str

FIRST_NAME == <<"F", "i", "r", "s", "t", " ", "N", "a", "m", "e">>

LAST_NAME == <<"L", "a", "s", "t", " ", "N", "a", "m", "e">>

COMPANY == <<"C", "o", "m", "p", "a", "n", "y">>

POSITION == <<"P", "o", "s", "i", "t", "i", "o", "n">>

\* the columns found in the header line (lines 252-255)
ColumnsOf(header) ==
    [first    |-> find_column(header, FIRST_NAME),
     last     |-> find_column(header, LAST_NAME),
     company  |-> find_column(header, COMPANY),
     position |-> find_column(header, POSITION)]

\* which element of fields a name is read from (lines 283-284), counted from 1:
\* the name's column, or fields[0] when the row is too short
FieldIndex(col, ncols) == IF col < ncols THEN col + 1 ELSE 1

\* The contact of one data row, or none (lines 267-316).  first and last point
\* into the fields array, and the cut at the comma and the trim of trailing
\* spaces write into it: when both point at the same field, first is last,
\* and a company or position read from that field reads what is left of it.
RowContact(line, cols) ==
    LET row     == Chomp(line)
        fields  == SplitRow(row)
        ncols   == Len(fields)
        fi      == FieldIndex(cols.first, ncols)
        li      == FieldIndex(cols.last, ncols)
        last    == DropTrailingSpaces(CutAtComma(SkipLeadingSpaces(fields[li])))
        first   == IF fi = li THEN last ELSE SkipLeadingSpaces(fields[fi])
        lead    == SubSeq(fields[li], 1, Len(fields[li]) - Len(SkipLeadingSpaces(fields[li])))
        After(col) == IF col + 1 = li THEN lead \o last ELSE fields[col + 1]
    IN  IF row = <<>> \/ first = <<>> \/ last = <<>>
        THEN <<>>
        ELSE << MkContact(first, last,
                          IF cols.company >= 0 /\ cols.company < ncols
                          THEN After(cols.company) ELSE <<>>,
                          IF cols.position >= 0 /\ cols.position < ncols
                          THEN After(cols.position) ELSE <<>>) >>

\* the index of the header line: the first line holding both labels, or 0
HeaderIndex(lines) ==
    LET found == {k \in 1..Len(lines) :
                    Contains(lines[k], FIRST_NAME) /\ Contains(lines[k], LAST_NAME)}
    IN  IF found = {} THEN 0 ELSE CHOOSE k \in found : \A j \in found : k <= j

\* parse_linkedin_contacts: the contacts of a file, given as the lines fgets reads
parse_linkedin_contacts(lines) ==
    LET h == HeaderIndex(lines)
    IN  IF h = 0 THEN <<>>
        ELSE LET cols == ColumnsOf(lines[h])
             IN  IF cols.first < 0 \/ cols.last < 0 THEN <<>>
                 ELSE Concat([k \in 1..(Len(lines) - h) |-> RowContact(lines[h + k], cols)])

(* ------------------------------------------------------------------ *)
(* Inputs: contact lists the parser can produce                         *)
(* ------------------------------------------------------------------ *)

ContactPool ==
    << MkContact(<<"A", "l">>, <<"O", "'", "N">>, <<"A", "&", "B">>, <<"<", "\"", "V", ">">>),
       MkContact(<<"B", "o">>, <<"L", "i">>, <<>>, <<"V", "P">>),
       MkContact(<<"C", "y">>, <<"X", "u">>, <<"C", "o">>, <<>>) >>

ContactAt(k) == ContactPool[((k - 1) % Len(ContactPool)) + 1]

ContactLists == { [k \in 1..n |-> ContactAt(k)] : n \in 1..MaxContacts }

(* ------------------------------------------------------------------ *)
(* Inputs: connections files, as the lines fgets reads                  *)
(* ------------------------------------------------------------------ *)

HeaderLines ==
    { <<"F", "i", "r", "s", "t", " ", "N", "a", "m", "e", ",", "L", "a", "s", "t", " ", "N", "a", "m", "e", "\n">>,
      <<"F", "i", "r", "s", "t", " ", "N", "a", "m", "e", ",", "L", "a", "s", "t", " ", "N", "a", "m", "e", ",", "C", "o", "m", "p", "a", "n", "y", ",", "P", "o", "s", "i", "t", "i", "o", "n", "\r", "\n">>,
      <<"C", "o", "m", "p", "a", "n", "y", ",", "F", "i", "r", "s", "t", " ", "N", "a", "m", "e", ",", "L", "a", "s", "t", " ", "N", "a", "m", "e", "\n">> }

\* first lines that are no header: neither label, and both labels with the
\* First Name column not among the fields
NoHeaderLines ==
    { <<"N", "a", "m", "e", ",", "C", "o", "m", "p", "a", "n", "y", "\n">>,
      <<"M", "y", " ", "F", "i", "r", "s", "t", " ", "N", "a", "m", "e", ",", "L", "a", "s", "t", " ", "N", "a", "m", "e", "\n">> }

\* what LinkedIn writes above the header
Preambles == { <<>>, << <<"N", "o", "t", "e", "s", ":", "\n">>, <<"\n">> >> }

RowAlphabet == {"a", " ", ",", "\""}

GeneratedRows ==
    UNION { { r \o <<"\n">> : r \in [1..n -> RowAlphabet] } : n \in 0..MaxRowLen }

FollowingRows ==
    { <<>>,
      << <<"b", ",", "c", ",", "C", "o", ",", "V", "P", "\n">> >>,
      << <<"\r", "\n">>, <<" ", "d", " ", ",", " ", "e", ",", " ", "x", " ", ",", "\"", "C", " ", "\"", "\"", "D", "\"", "\"", " ", ",", "\"", "\r", "\n">>, <<"b", ",", "c", ",", "C", "o", ",", "V", "P", "\n">> >> }

Files ==
    { pre \o <<h>> \o <<row>> \o rest :
        pre \in Preambles, h \in HeaderLines \cup NoHeaderLines,
        row \in GeneratedRows, rest \in FollowingRows }

(* ------------------------------------------------------------------ *)
(* Inputs: responses of the upstream                                    *)
(* ------------------------------------------------------------------ *)

CRLF == <<"\r", "\n">>

ServerLine == <<"C", "o", "n", "t", "e", "n", "t", "-", "T", "y", "p", "e", ":", " ", "x">> \o CRLF

RetryAfterLine(v) == RETRY_AFTER \o v \o CRLF

NoRetryAfter == << ServerLine, CRLF >>

HeaderSets ==
    { NoRetryAfter,
      << ServerLine, RetryAfterLine(<<" ", "5">>), CRLF >>,
      << RetryAfterLine(<<" ", "5">>), ServerLine, CRLF >>,
      << LowerCase(RETRY_AFTER) \o <<"1">> \o CRLF, CRLF >>,
      << RetryAfterLine(<<" ", "0">>), CRLF >>,
      << RetryAfterLine(<<" ", "-", "3">>), CRLF >>,
      << RetryAfterLine(<<" ", "W", "e", "d">>), CRLF >>,
      << RetryAfterLine(<<>>), CRLF >> }

TransportFailure == [kind |-> "fail", code |-> 0, headers |-> <<>>, body |-> InvalidJson]

Http(code, headers, body) == [kind |-> "http", code |-> code, headers |-> headers, body |-> body]

NoResponse == [kind |-> "none", code |-> 0, headers |-> <<>>, body |-> InvalidJson]

PlainItem ==
    [content_preview |-> JString(<<"o", "k">>),
     content         |-> JString(<<"n", "o">>),
     file_path       |-> JString(<<"/", "d", "a", "t", "a", "s", "e", "t", "1", "/", "a", " ", "b">>)]

ScriptItem ==
    [content_preview |-> JString(<<"<", "s", "c", "r", "i", "p", "t", ">", "&", "'", "\"">>),
     content         |-> JAbsent,
     file_path       |-> JAbsent]

FallbackItem ==
    [content_preview |-> JNumberItem,
     content         |-> JString(<<"c", "&", "d">>),
     file_path       |-> JString(<<"x", "<", "y">>)]

LongItem ==
    [content_preview |-> JString([k \in 1..(PREVIEW_SHOWN + 1) |->
                                    IF k >= PREVIEW_SHOWN THEN "<" ELSE "a"]),
     content         |-> JAbsent,
     file_path       |-> JNumberItem]

Ok200(th, ha) == Http(200, NoRetryAfter, JsonObject("true", Data(th, ha)))

\* the responses of a run over several contacts
FewResponses ==
    { TransportFailure,
      Http(429, NoRetryAfter, InvalidJson),
      Http(500, NoRetryAfter, InvalidJson),
      Http(200, NoRetryAfter, InvalidJson),
      Http(200, NoRetryAfter, JsonObject("false", Data(NumberTotal(20), NoHits))),
      Ok200(NumberTotal(0), ArrayHits(<<>>)),
      Ok200(NumberTotal(20), ArrayHits(<<PlainItem, ScriptItem>>)),
      Ok200(NumberTotal(-10), NoHits) }

\* the responses of a run over one contact that is rate limited: every
\* header set on a 429
BackoffResponses ==
    FewResponses
    \cup { Http(429, h, InvalidJson) : h \in HeaderSets }
    \cup { Http(429, << RetryAfterLine(<<" ", "4", "2", "9", "4">>), CRLF >>, InvalidJson),
           Http(429, << RetryAfterLine(<<" ", "4", "2", "9", "5">>), CRLF >>, InvalidJson) }

\* the responses of a run over several contacts that is rate limited with
\* and without Retry-After
RatchetResponses ==
    { TransportFailure,
      Http(429, NoRetryAfter, InvalidJson),
      Http(429, << ServerLine, RetryAfterLine(<<" ", "5">>), CRLF >>, InvalidJson),
      Http(429, << RetryAfterLine(<<" ", "1">>), CRLF >>, InvalidJson),
      Http(500, NoRetryAfter, InvalidJson),
      Ok200(NumberTotal(0), ArrayHits(<<>>)) }

\* the responses of a run over one contact
ManyResponses ==
    FewResponses
    \cup { Http(429, << ServerLine, RetryAfterLine(<<" ", "5">>), CRLF >>, InvalidJson),
           Http(500, << ServerLine, RetryAfterLine(<<" ", "5">>), CRLF >>, InvalidJson),
           Http(404, NoRetryAfter, JsonObject("true", Data(NumberTotal(20), NoHits))),
           Http(200, << RetryAfterLine(<<" ", "5">>), CRLF >>,
                JsonObject("true", Data(NumberTotal(10), ArrayHits(<<PlainItem>>)))),
           Ok200(NumberTotal(20), NoHits),
           Http(200, NoRetryAfter, JsonObject("absent", Data(NumberTotal(20), NoHits))),
           Http(200, NoRetryAfter, JsonObject("number", Data(NumberTotal(20), NoHits))),
           Http(200, NoRetryAfter, JsonObject("true", NoData)) }
    \cup { Ok200(th, ArrayHits(items)) :
             th \in { NoTotal, StringTotal, NumberTotal(0), NumberTotal(10), NumberTotal(25),
                      NumberTotal(-5), NumberTotal(1500) },
             items \in { <<>>, <<FallbackItem>>, <<ScriptItem, PlainItem>> } }
    \cup { Ok200(NumberTotal(10), ArrayHits(<<LongItem>>)),
           Ok200(NumberTotal(1500), ArrayHits([k \in 1..MAX_HITS |-> PlainItem])),
           Ok200(NumberTotal(1500), ArrayHits([k \in 1..(MAX_HITS + 1) |-> PlainItem])),
           Ok200(NumberTotal(10), ArrayHits([k \in 1..(MAX_HITS + 1) |-> PlainItem])) }
    \cup { Ok200(NumberTotal(30), ObjectHits) }

(* ------------------------------------------------------------------ *)
(* The HTML report                                                      *)
(* ------------------------------------------------------------------ *)

AlphaNum ==
    { "0", "1", "2", "3", "4", "5", "6", "7", "8", "9",
      "a", "b", "c", "d", "e", "f", "g", "h", "i", "j", "k", "l", "m",
      "n", "o", "p", "q", "r", "s", "t", "u", "v", "w", "x", "y", "z",
      "A", "B", "C", "D", "E", "F", "G", "H", "I", "J", "K", "L", "M",
      "N", "O", "P", "Q", "R", "S", "T", "U", "V", "W", "X", "Y", "Z" }

\* sprintf(p, "%%%02X", c), for the other characters of the model's texts
PercentCode(c) ==
    CASE c = " "  -> <<"%", "2", "0">>
      [] c = "\"" -> <<"%", "2", "2">>
      [] c = "&"  -> <<"%", "2", "6">>
      [] c = "'"  -> <<"%", "2", "7">>
      [] c = ","  -> <<"%", "2", "C">>
      [] c = ":"  -> <<"%", "3", "A">>
      [] c = "<"  -> <<"%", "3", "C">>
      [] c = ">"  -> <<"%", "3", "E">>
      [] OTHER    -> <<"%", "x", "x">>

url_encode_path(str) ==
    Concat([k \in 1..Len(str) |->
              IF str[k] \in AlphaNum \cup {"-", "_", ".", "~", "/"}
              THEN <<str[k]>> ELSE PercentCode(str[k])])

PDF_BASE_URL == <<"h", "t", "t", "p", "s", ":", "/", "/", "w", "w", "w", ".", "j", "u", "s", "t", "i", "c", "e", ".", "g", "o", "v", "/", "e", "p", "s", "t", "e", "i", "n", "/", "f", "i", "l", "e", "s", "/">>

\* fixed_path: the path with its first "dataset" rewritten to "DataSet"
FixedPath(file_path) ==
    LET fp     == StrNCpy(file_path, MAX_FIELD - 1)
        needle == <<"d", "a", "t", "a", "s", "e", "t">>
    IN  IF Contains(fp, needle)
        THEN LET pos == CHOOSE k \in 1..Len(fp) :
                           /\ IsSubstringAt(fp, needle, k)
                           /\ \A j \in 1..(k - 1) : ~IsSubstringAt(fp, needle, j)
             IN  [k \in 1..Len(fp) |->
                    IF k = pos THEN "D" ELSE IF k = pos + 4 THEN "S" ELSE fp[k]]
        ELSE fp

\* pdf_url (lines 579-593)
PdfUrl(fixed_path) ==
    LET base == IF fixed_path[1] = "/" /\ PDF_BASE_URL[Len(PDF_BASE_URL)] = "/"
                THEN SubSeq(PDF_BASE_URL, 1, Len(PDF_BASE_URL) - 1)
                ELSE PDF_BASE_URL
    IN  StrNCpy(base \o url_encode_path(fixed_path), 2047)

\* the preview of one hit as written (lines 563-567)
PreviewHtml(h) == html_escape_to(StrNCpy(h.content_preview, PREVIEW_SHOWN))

\* one hit of the report (lines 556-603)
HitHtml(h) ==
    [preview   |-> PreviewHtml(h),
     has_link  |-> h.file_path # <<>>,
     href      |-> IF h.file_path # <<>>
                   THEN html_escape_to(PdfUrl(FixedPath(h.file_path))) ELSE <<>>,
     link_text |-> IF h.file_path # <<>>
                   THEN html_escape_to(FixedPath(h.file_path)) ELSE <<>>]

\* the contact-info line (lines 539-547)
InfoHtml(r) ==
    IF r.position # <<>> /\ r.company # <<>>
    THEN html_escape_to(r.position) \o <<" ", "a", "t", " ">> \o html_escape_to(r.company)
    ELSE IF r.position # <<>> THEN html_escape_to(r.position)
    ELSE IF r.company # <<>> THEN html_escape_to(r.company)
    ELSE <<>>

\* one itemized contact (lines 531-608)
ItemHtml(r) ==
    [name       |-> html_escape_to(r.name),
     info       |-> InfoHtml(r),
     mentions   |-> r.total_mentions,
     hits       |-> [j \in 1..r.num_hits |-> HitHtml(r.hits[j])],
     no_details |-> ~(r.num_hits > 0)]

\* whether the loop of line 527 writes the contact (line 529)
Listed(r) == ~(r.total_mentions = 0)

\* whether lines 447-449 count the contact
CountsAsMention(r) == r.total_mentions > 0

NoReport == [written |-> FALSE, masthead |-> "none", total_connections |-> 0,
             connections_with_mentions |-> 0, items |-> <<>>]

ReportOf_CountsAllContacts(res, n, logo) ==
    LET listed == SelectSeq(SubSeq(res, 1, n), Listed)
    IN  [written |-> TRUE,
         masthead |-> IF logo THEN "img" ELSE "h1",
         total_connections |-> Len(res),
         connections_with_mentions |-> Cardinality({k \in 1..n : CountsAsMention(res[k])}),
         items |-> [k \in 1..Len(listed) |-> ItemHtml(listed[k])]]

\* the file generate_html_report writes, once it could open it
ReportOf(res, n, logo) ==
    LET listed == SelectSeq(SubSeq(res, 1, n), Listed)
    IN  [written |-> TRUE,
         masthead |-> IF logo THEN "img" ELSE "h1",
         total_connections |-> n,
         connections_with_mentions |-> Cardinality({k \in 1..n : CountsAsMention(res[k])}),
         items |-> [k \in 1..Len(listed) |-> ItemHtml(listed[k])]]

(* ------------------------------------------------------------------ *)
(* qsort with cmp_results                                               *)
(* ------------------------------------------------------------------ *)

\* cmp_results(a, b)
cmp_results(a, b) == b.total_mentions - a.total_mentions

Injections(n) == {f \in [1..n -> 1..n] : \A x, y \in 1..n : x # y => f[x] # f[y]}

\* the arrays qsort(results, n, ..., cmp_results) may leave: the first n elements
\* rearranged into an order the comparator accepts; nothing is said of ties
QsortOutcomes(res, n) ==
    { [k \in 1..Len(res) |-> IF k <= n THEN res[f[k]] ELSE res[k]] :
        f \in { g \in Injections(n) :
                  \A k \in 1..(n - 1) : cmp_results(res[g[k]], res[g[k + 1]]) <= 0 } }

(* ------------------------------------------------------------------ *)
(* State                                                                *)
(* ------------------------------------------------------------------ *)

VARIABLES
    file,               \* the lines of the connections file
    contacts,           \* the parsed contacts (contacts, num_contacts)
    pc,                 \* where main is
    i,                  \* the index of the for loop of line 725
    results,            \* the results array
    num_results,
    delay,              \* in quarter seconds
    retry_after_value,
    interrupted,        \* the flag sigint_handler sets
    upstream,           \* which responses the upstream may give in this run
    retries,            \* the 429 responses given so far
    last_resp,          \* the response of the latest curl_easy_perform
    outcomes,           \* how each search ended, in processing order
    slept,              \* the usleep calls in order: the kind of each, the delay
                        \* it was to last and the microseconds passed (in 16s)
    live,               \* curl handles and response buffers held
    processed,          \* the results as they were before qsort
    report,             \* the output file
    out,                \* what was printed, in order
    exit_code           \* the exit status, -1 while running

vars == << file, contacts, pc, i, results, num_results, delay, retry_after_value,
           interrupted, upstream, retries, last_resp, outcomes, slept, live,
           processed, report, out, exit_code >>

Say(msg, n) == Append(out, [msg |-> msg, n |-> n])

Printed(msg) == \E k \in 1..Len(out) : out[k].msg = msg

\* the state at line 721, the contacts parsed and the handler installed
InitWith(cs, pool) ==
    /\ file = <<>>
    /\ contacts = cs
    /\ pc = "for_test"
    /\ i = 0
    /\ results = [k \in 1..Len(cs) |-> ZeroResult]
    /\ num_results = 0
    /\ delay = InitialDelay
    /\ retry_after_value = 0
    /\ interrupted = FALSE
    /\ upstream = pool
    /\ retries = 0
    /\ last_resp = NoResponse
    /\ outcomes = <<>>
    /\ slept = <<>>
    /\ live = [curl |-> 0, buf |-> 0]
    /\ processed = <<>>
    /\ report = NoReport
    /\ out = <<>>
    /\ exit_code = -1

Init == \E cs \in ContactLists : InitWith(cs, "few")

InitOne == InitWith(<<ContactAt(1)>>, "many")

InitBackoff == InitWith(<<ContactAt(1)>>, "backoff")

InitRatchet == \E cs \in ContactLists : InitWith(cs, "ratchet")

\* the responses curl_easy_perform may deliver
Responses ==
    CASE upstream = "many"    -> ManyResponses
      [] upstream = "backoff" -> BackoffResponses
      [] upstream = "ratchet" -> RatchetResponses
      [] OTHER                -> FewResponses

(* ------------------------------------------------------------------ *)
(* main: the search loop                                                *)
(* ------------------------------------------------------------------ *)

\* sigint_handler
Interrupt ==
    /\ pc # "done"
    /\ ~interrupted
    /\ interrupted' = TRUE
    /\ UNCHANGED << file, contacts, pc, i, results, num_results, delay, retry_after_value,
                    upstream, retries, last_resp, outcomes, slept, live, processed,
                    report, out, exit_code >>

BeginContact_ResetsDelay ==
    /\ pc = "for_test"
    /\ i < Len(contacts) /\ ~interrupted
    /\ results' = [results EXCEPT ![num_results + 1] = NewResult(contacts[i + 1])]
    /\ live' = [curl |-> live.curl + 1, buf |-> live.buf + 1]
    /\ delay' = InitialDelay
    /\ pc' = "perform"
    /\ UNCHANGED << file, contacts, i, num_results, retry_after_value, interrupted,
                    upstream, retries, last_resp, outcomes, slept, processed, report,
                    out, exit_code >>

BeginContact_IgnoresInterrupt ==
    /\ pc = "for_test"
    /\ i < Len(contacts)
    /\ results' = [results EXCEPT ![num_results + 1] = NewResult(contacts[i + 1])]
    /\ live' = [curl |-> live.curl + 1, buf |-> live.buf + 1]
    /\ pc' = "perform"
    /\ UNCHANGED << file, contacts, i, num_results, delay, retry_after_value, interrupted,
                    upstream, retries, last_resp, outcomes, slept, processed, report,
                    out, exit_code >>

\* lines 725-735 and 340-355: the loop test passes, the Result slot is filled
\* and search_epstein_files has its handle and buffer
BeginContact ==
    /\ pc = "for_test"
    /\ i < Len(contacts) /\ ~interrupted
    /\ results' = [results EXCEPT ![num_results + 1] = NewResult(contacts[i + 1])]
    /\ live' = [curl |-> live.curl + 1, buf |-> live.buf + 1]
    /\ pc' = "perform"
    /\ UNCHANGED << file, contacts, i, num_results, delay, retry_after_value, interrupted,
                    upstream, retries, last_resp, outcomes, slept, processed, report,
                    out, exit_code >>

\* line 352: curl_easy_init gave no handle
BeginContactNoHandle ==
    /\ pc = "for_test"
    /\ i < Len(contacts) /\ ~interrupted
    /\ results' = [results EXCEPT ![num_results + 1] = NewResult(contacts[i + 1])]
    /\ outcomes' = Append(outcomes, "no_handle")
    /\ pc' = "searched"
    /\ UNCHANGED << file, contacts, i, num_results, delay, retry_after_value, interrupted,
                    upstream, retries, last_resp, slept, live, processed, report,
                    out, exit_code >>

Released_KeepsBuffer == [curl |-> live.curl - 1, buf |-> live.buf]

\* buf_free and curl_easy_cleanup (lines 437-438)
Released == [curl |-> live.curl - 1, buf |-> live.buf - 1]

PerformFail_EndsTheRun ==
    /\ pc = "perform"
    /\ \E resp \in Responses :
         /\ resp.kind = "fail"
         /\ last_resp' = resp
         /\ retry_after_value' = HeadersSeen(0, resp.headers)
    /\ out' = Say("warning_request_failed", 0)
    /\ outcomes' = Append(outcomes, "transport")
    /\ live' = Released
    /\ pc' = "after_loop"
    /\ UNCHANGED << file, contacts, i, results, num_results, delay, interrupted, upstream,
                    retries, slept, processed, report, exit_code >>

\* lines 358-374: the transfer fails
PerformFail ==
    /\ pc = "perform"
    /\ \E resp \in Responses :
         /\ resp.kind = "fail"
         /\ last_resp' = resp
         /\ retry_after_value' = HeadersSeen(0, resp.headers)
    /\ out' = Say("warning_request_failed", 0)
    /\ outcomes' = Append(outcomes, "transport")
    /\ live' = Released
    /\ pc' = "searched"
    /\ UNCHANGED << file, contacts, i, results, num_results, delay, interrupted, upstream,
                    retries, slept, processed, report, exit_code >>

\* lines 358-388: a 429, the delay adjusted and slept, the request repeated
Perform429 ==
    /\ pc = "perform"
    /\ retries < MaxRetries
    /\ \E resp \in Responses :
         /\ resp.kind = "http" /\ resp.code = 429
         /\ last_resp' = resp
         /\ retry_after_value' = HeadersSeen(0, resp.headers)
    /\ delay' = DelayAfter429(delay, retry_after_value')
    /\ out' = Say("rate_limited", delay')
    /\ \E u \in usleep_arg(delay') :
         slept' = Append(slept, [kind |-> "backoff", delay |-> delay', usec |-> u])
    /\ retries' = retries + 1
    /\ UNCHANGED << file, contacts, pc, i, results, num_results, interrupted, upstream,
                    outcomes, live, processed, report, exit_code >>

\* lines 358-388 once more: a 429 beyond the MaxRetries that retries, out and
\* slept record (slept keeps the latest of these sleeps only).  The loop of
\* line 357 has no bound and no test of interrupted; the response carries a
\* positive Retry-After, which keeps the delay bounded.
Perform429Again ==
    /\ pc = "perform"
    /\ retries = MaxRetries
    /\ \E resp \in Responses :
         /\ resp.kind = "http" /\ resp.code = 429
         /\ HeadersSeen(0, resp.headers) > 0
         /\ last_resp' = resp
         /\ retry_after_value' = HeadersSeen(0, resp.headers)
    /\ delay' = DelayAfter429(delay, retry_after_value')
    /\ \E u \in usleep_arg(delay') :
         LET nap == [kind |-> "backoff", delay |-> delay', usec |-> u]
         IN  slept' = IF slept # <<>> /\ slept[Len(slept)].kind = "backoff"
                      THEN [slept EXCEPT ![Len(slept)] = nap]
                      ELSE Append(slept, nap)
    /\ UNCHANGED << file, contacts, pc, i, results, num_results, interrupted, upstream,
                    retries, outcomes, live, processed, report, out, exit_code >>

PerformStatus_HonoursRetryAfter ==
    /\ pc = "perform"
    /\ \E resp \in Responses :
         /\ resp.kind = "http" /\ resp.code # 429 /\ resp.code # 200
         /\ last_resp' = resp
         /\ retry_after_value' = HeadersSeen(0, resp.headers)
         /\ out' = Say("warning_http", resp.code)
    /\ delay' = IF retry_after_value' > 0 THEN retry_after_value' * TicksPerSecond ELSE delay
    /\ outcomes' = Append(outcomes, "status")
    /\ live' = Released
    /\ pc' = "searched"
    /\ UNCHANGED << file, contacts, i, results, num_results, interrupted, upstream,
                    retries, slept, processed, report, exit_code >>

\* lines 358-393: a status other than 200 and 429
PerformStatus ==
    /\ pc = "perform"
    /\ \E resp \in Responses :
         /\ resp.kind = "http" /\ resp.code # 429 /\ resp.code # 200
         /\ last_resp' = resp
         /\ retry_after_value' = HeadersSeen(0, resp.headers)
         /\ out' = Say("warning_http", resp.code)
    /\ outcomes' = Append(outcomes, "status")
    /\ live' = Released
    /\ pc' = "searched"
    /\ UNCHANGED << file, contacts, i, results, num_results, delay, interrupted, upstream,
                    retries, slept, processed, report, exit_code >>

\* how a 200 response ended the search
OutcomeOf200(body) ==
    IF body.json # "object" THEN "unparseable"
    ELSE IF body.success # "true" THEN "not_success"
    ELSE "success"

\* lines 358-434: a 200, its body read into the result
Perform200 ==
    /\ pc = "perform"
    /\ \E resp \in Responses :
         /\ resp.kind = "http" /\ resp.code = 200
         /\ last_resp' = resp
         /\ retry_after_value' = HeadersSeen(0, resp.headers)
         /\ results' = [results EXCEPT
                          ![num_results + 1] = ParseBody(results[num_results + 1], resp.body)]
         /\ outcomes' = Append(outcomes, OutcomeOf200(resp.body))
    /\ live' = Released
    /\ pc' = "searched"
    /\ UNCHANGED << file, contacts, i, num_results, delay, interrupted, upstream,
                    retries, slept, processed, report, out, exit_code >>

FinishContact_SleepsAfterLast ==
    /\ pc = "searched"
    /\ out' = Say("hits", results[num_results + 1].total_mentions)
    /\ num_results' = num_results + 1
    /\ IF ~interrupted
       THEN \E u \in usleep_arg(delay) :
              slept' = Append(slept, [kind |-> "pace", delay |-> delay, usec |-> u])
       ELSE slept' = slept
    /\ i' = i + 1
    /\ pc' = "for_test"
    /\ UNCHANGED << file, contacts, results, delay, retry_after_value, interrupted,
                    upstream, retries, last_resp, outcomes, live, processed, report,
                    exit_code >>

\* lines 737-742 and the i++ of line 725: the result counted, the pacing sleep
FinishContact ==
    /\ pc = "searched"
    /\ out' = Say("hits", results[num_results + 1].total_mentions)
    /\ num_results' = num_results + 1
    /\ IF i < Len(contacts) - 1 /\ ~interrupted
       THEN \E u \in usleep_arg(delay) :
              slept' = Append(slept, [kind |-> "pace", delay |-> delay, usec |-> u])
       ELSE slept' = slept
    /\ i' = i + 1
    /\ pc' = "for_test"
    /\ UNCHANGED << file, contacts, results, delay, retry_after_value, interrupted,
                    upstream, retries, last_resp, outcomes, live, processed, report,
                    exit_code >>

\* line 725: the loop test fails
LoopExit ==
    /\ pc = "for_test"
    /\ ~(i < Len(contacts) /\ ~interrupted)
    /\ pc' = "after_loop"
    /\ UNCHANGED << file, contacts, i, results, num_results, delay, retry_after_value,
                    interrupted, upstream, retries, last_resp, outcomes, slept, live,
                    processed, report, out, exit_code >>

(* ------------------------------------------------------------------ *)
(* main: after the loop                                                 *)
(* ------------------------------------------------------------------ *)

\* lines 745-753: interrupted before any result: no report, exit status 0
ExitNoResults ==
    /\ pc = "after_loop"
    /\ interrupted /\ num_results = 0
    /\ out' = out \o << [msg |-> "interrupted", n |-> 0], [msg |-> "no_results", n |-> 0] >>
    /\ exit_code' = 0
    /\ pc' = "done"
    /\ UNCHANGED << file, contacts, i, results, num_results, delay, retry_after_value,
                    interrupted, upstream, retries, last_resp, outcomes, slept, live,
                    processed, report >>

\* lines 745-756: interrupted with results: a partial report follows
AnnouncePartial ==
    /\ pc = "after_loop"
    /\ interrupted /\ num_results # 0
    /\ out' = out \o << [msg |-> "interrupted", n |-> 0],
                        [msg |-> "partial", n |-> num_results] >>
    /\ pc' = "sort"
    /\ UNCHANGED << file, contacts, i, results, num_results, delay, retry_after_value,
                    interrupted, upstream, retries, last_resp, outcomes, slept, live,
                    processed, report, exit_code >>

\* line 745: not interrupted
NotInterrupted ==
    /\ pc = "after_loop"
    /\ ~interrupted
    /\ pc' = "sort"
    /\ UNCHANGED << file, contacts, i, results, num_results, delay, retry_after_value,
                    interrupted, upstream, retries, last_resp, outcomes, slept, live,
                    processed, report, out, exit_code >>

\* line 759
Sort ==
    /\ pc = "sort"
    /\ processed' = SubSeq(results, 1, num_results)
    /\ results' \in QsortOutcomes(results, num_results)
    /\ pc' = "report"
    /\ UNCHANGED << file, contacts, i, num_results, delay, retry_after_value, interrupted,
                    upstream, retries, last_resp, outcomes, slept, live, report, out,
                    exit_code >>

\* lines 762-763 and 446-619: the report written
WriteReport ==
    /\ pc = "report"
    /\ \E logo \in BOOLEAN : report' = ReportOf(results, num_results, logo)
    /\ out' = Say("writing_report", 0)
    /\ pc' = "summary"
    /\ UNCHANGED << file, contacts, i, results, num_results, delay, retry_after_value,
                    interrupted, upstream, retries, last_resp, outcomes, slept, live,
                    processed, exit_code >>

\* lines 762-763 and 451-455: fopen fails, generate_html_report returns
WriteReportCannotOpen ==
    /\ pc = "report"
    /\ out' = out \o << [msg |-> "writing_report", n |-> 0],
                        [msg |-> "error_cannot_open_output", n |-> 0] >>
    /\ pc' = "summary"
    /\ UNCHANGED << file, contacts, i, results, num_results, delay, retry_after_value,
                    interrupted, upstream, retries, last_resp, outcomes, slept, live,
                    processed, report, exit_code >>

\* lines 765-799: the summary printed, "Full report saved to", return 0
Summary ==
    /\ pc = "summary"
    /\ out' = out \o
         << [msg |-> "summary_total", n |-> num_results],
            [msg |-> "summary_with_mentions",
             n |-> Cardinality({k \in 1..num_results : results[k].total_mentions > 0})],
            [msg |-> "report_saved", n |-> 0] >>
    /\ exit_code' = 0
    /\ pc' = "done"
    /\ UNCHANGED << file, contacts, i, results, num_results, delay, retry_after_value,
                    interrupted, upstream, retries, last_resp, outcomes, slept, live,
                    processed, report >>

Next ==
    \/ Interrupt
    \/ BeginContact
    \/ BeginContactNoHandle
    \/ PerformFail
    \/ Perform429
    \/ PerformStatus
    \/ Perform200
    \/ FinishContact
    \/ LoopExit
    \/ ExitNoResults
    \/ AnnouncePartial
    \/ NotInterrupted
    \/ Sort
    \/ WriteReportCannotOpen
    \/ WriteReport
    \/ Summary

Spec == Init /\ [][Next]_vars

\* a run over one contact, the upstream free to answer anything
SpecOne == InitOne /\ [][Next]_vars

\* a run over one contact, the upstream rate limiting with any headers
SpecBackoff == InitBackoff /\ [][Next]_vars

\* a run over several contacts, the upstream rate limiting with and without
\* Retry-After
SpecRatchet == InitRatchet /\ [][Next]_vars

(* ------------------------------------------------------------------ *)
(* main: reading the connections file                                   *)
(* ------------------------------------------------------------------ *)

\* the state at line 697, the connections file readable
InitParse ==
    /\ file \in Files
    /\ contacts = <<>>
    /\ pc = "parse"
    /\ i = 0
    /\ results = <<>>
    /\ num_results = 0
    /\ delay = InitialDelay
    /\ retry_after_value = 0
    /\ interrupted = FALSE
    /\ upstream = "few"
    /\ retries = 0
    /\ last_resp = NoResponse
    /\ outcomes = <<>>
    /\ slept = <<>>
    /\ live = [curl |-> 0, buf |-> 0]
    /\ processed = <<>>
    /\ report = NoReport
    /\ out = <<>>
    /\ exit_code = -1

\* lines 697-700
ParseContacts ==
    /\ pc = "parse"
    /\ contacts' = parse_linkedin_contacts(file)
    /\ out' = out \o << [msg |-> "reading", n |-> 0],
                        [msg |-> "found", n |-> Len(contacts')] >>
    /\ pc' = "parsed"
    /\ UNCHANGED << file, i, results, num_results, delay, retry_after_value, interrupted,
                    upstream, retries, last_resp, outcomes, slept, live, processed,
                    report, exit_code >>

\* lines 702-706: no contacts, exit status 1
NoConnections ==
    /\ pc = "parsed"
    /\ Len(contacts) = 0
    /\ out' = Say("no_connections_found", 0)
    /\ exit_code' = 1
    /\ pc' = "done"
    /\ UNCHANGED << file, contacts, i, results, num_results, delay, retry_after_value,
                    interrupted, upstream, retries, last_resp, outcomes, slept, live,
                    processed, report >>

\* lines 708-723: the handler installed, the results array allocated
StartSearch ==
    /\ pc = "parsed"
    /\ Len(contacts) # 0
    /\ results' = [k \in 1..Len(contacts) |-> ZeroResult]
    /\ out' = Say("searching", 0)
    /\ pc' = "for_test"
    /\ UNCHANGED << file, contacts, i, num_results, delay, retry_after_value,
                    interrupted, upstream, retries, last_resp, outcomes, slept, live,
                    processed, report, exit_code >>

NextParse == ParseContacts \/ NoConnections \/ StartSearch

\* main from the reading of the connections file to the start of the search
SpecParse == InitParse /\ [][NextParse]_vars

\* the steps of a run that no signal reaches
NextUncancelled ==
    \/ BeginContact
    \/ BeginContactNoHandle
    \/ PerformFail
    \/ Perform429
    \/ PerformStatus
    \/ Perform200
    \/ FinishContact
    \/ LoopExit
    \/ NotInterrupted
    \/ Sort
    \/ WriteReportCannotOpen
    \/ WriteReport
    \/ Summary

\* A run without SIGINT.  The process keeps running and every
\* curl_easy_perform returns (CURLOPT_TIMEOUT is 30 s), so a step that can be
\* taken is taken; the upstream stops answering 429 after MaxRetries of them.
SpecUncancelled == Init /\ [][NextUncancelled]_vars /\ WF_vars(NextUncancelled)

\* the steps of a run whose upstream may answer 429 without end
NextRetry == Next \/ Perform429Again

\* A run over one contact against an upstream that may rate limit for ever.
\* The process keeps running: a step that can be taken is taken.  Nothing
\* makes the upstream give another answer than 429.
SpecRetry == InitBackoff /\ [][NextRetry]_vars /\ WF_vars(NextRetry)

(* ------------------------------------------------------------------ *)
(* Properties                                                           *)
(* ------------------------------------------------------------------ *)

AfterSort == pc \in {"report", "summary", "done"} /\ ~Printed("no_results")

\* C1 -----------------------------------------------------------------

\* the characters of a header line before its first colon
FieldName(line) ==
    IF \E k \in 1..Len(line) : line[k] = ":"
    THEN SubSeq(line, 1, (CHOOSE k \in 1..Len(line) :
                            line[k] = ":" /\ \A j \in 1..(k - 1) : line[j] # ":") - 1)
    ELSE line

\* the characters after the first colon, without white space around them
FieldValue(line) ==
    LET rest  == SubSeq(line, Len(FieldName(line)) + 2, Len(line))
        inner == {k \in 1..Len(rest) : ~IsSpace(rest[k])}
    IN  IF inner = {} THEN <<>>
        ELSE SubSeq(rest, CHOOSE k \in inner : \A j \in inner : k <= j,
                          CHOOSE k \in inner : \A j \in inner : k >= j)

Pow10(n) == IF n = 0 THEN 1 ELSE IF n = 1 THEN 10 ELSE IF n = 2 THEN 100 ELSE 1000

RECURSIVE SumOver(_, _)
SumOver(f, S) ==
    IF S = {} THEN 0 ELSE LET x == CHOOSE y \in S : TRUE IN f[x] + SumOver(f, S \ {x})

\* the number a string of decimal digits denotes
Decimal(ds) == SumOver([k \in 1..Len(ds) |-> DigitVal(ds[k]) * Pow10(Len(ds) - k)], 1..Len(ds))

\* the header lines of a response that are a Retry-After with a positive integer
PositiveRetryAfterLines(headers) ==
    {k \in 1..Len(headers) :
        /\ LowerCase(FieldName(headers[k])) = LowerCase(SubSeq(RETRY_AFTER, 1, 11))
        /\ FieldValue(headers[k]) # <<>>
        /\ \A j \in 1..Len(FieldValue(headers[k])) : IsDigit(FieldValue(headers[k])[j])
        /\ Decimal(FieldValue(headers[k])) > 0}

\* C1: on every 429 response the delay slept next is the positive integer of
\* its Retry-After header, in seconds, whatever the delay was before; without
\* such a header it is twice the previous delay.
C1_RetryAfterOrDouble ==
    [][ retries' = retries + 1 =>
          /\ last_resp'.code = 429
          /\ Len(slept') = Len(slept) + 1
          /\ slept'[Len(slept')].kind = "backoff" /\ slept'[Len(slept')].delay = delay'
          /\ LET lines == PositiveRetryAfterLines(last_resp'.headers)
             IN  IF lines # {}
                 THEN \A k \in lines :
                        delay' = Decimal(FieldValue(last_resp'.headers[k])) * TicksPerSecond
                 ELSE delay' = 2 * delay ]_vars

\* a second 429 brought Retry-After: 1 and the delay went down to 1 s
C1_Witness ==
    /\ retries = 2
    /\ last_resp.code = 429
    /\ PositiveRetryAfterLines(last_resp.headers) # {}
    /\ delay = TicksPerSecond
    /\ Len(slept) = 2
    /\ slept[2].kind = "backoff" /\ slept[2].delay = TicksPerSecond
    /\ Len(out) = 2 /\ out[1].n = 5 * TicksPerSecond

\* C2 -----------------------------------------------------------------

\* sorted is orig ordered by total_mentions descending, ties in orig's order
IsStableDescending(sorted, orig) ==
    /\ Len(sorted) = Len(orig)
    /\ \E f \in Injections(Len(orig)) :
         /\ \A k \in 1..Len(orig) : sorted[k] = orig[f[k]]
         /\ \A k, l \in 1..Len(orig) :
              k < l => \/ orig[f[k]].total_mentions > orig[f[l]].total_mentions
                       \/ /\ orig[f[k]].total_mentions = orig[f[l]].total_mentions
                          /\ f[k] < f[l]

\* C2: the sort orders the Results by total_mentions descending and keeps
\* Results of equal total_mentions in their input order.
C2_SortIsStable ==
    AfterSort => IsStableDescending(SubSeq(results, 1, num_results), processed)

\* C3 -----------------------------------------------------------------

IsPermutation(a, b) ==
    /\ Len(a) = Len(b)
    /\ \E f \in Injections(Len(b)) : \A k \in 1..Len(b) : a[k] = b[f[k]]

\* the N results of a cancelled run are those of the first N contacts, sorted,
\* and the report counts N connections
PartialReportOfN ==
    /\ Len(outcomes) = num_results
    /\ \A k \in 1..num_results : processed[k].name = contacts[k].full_name
    /\ IsPermutation(SubSeq(results, 1, num_results), processed)
    /\ report.written
    /\ report.total_connections = num_results

\* C3 as stated: cancelled after N of M contacts, for every 0 <= N <= M, the
\* N results are retained, sorted and rendered and the report shows
\* total_connections = N (a run whose output file could not be opened aside).
C3_PartialReportForEveryN ==
    (pc = "done" /\ Printed("interrupted") /\ ~Printed("error_cannot_open_output"))
        => PartialReportOfN

\* C3 amended: so for 1 <= N <= M whenever the output file can be opened; a
\* run cancelled with N = 0 sorts nothing, writes no report and exits with 0.
C3_PartialReportForPositiveN ==
    (pc = "done" /\ Printed("interrupted")) =>
        IF num_results = 0
        THEN /\ ~report.written /\ processed = <<>> /\ ~Printed("writing_report")
             /\ Printed("no_results") /\ exit_code = 0
        ELSE IF Printed("error_cannot_open_output")
        THEN /\ ~report.written
             /\ IsPermutation(SubSeq(results, 1, num_results), processed)
        ELSE PartialReportOfN

\* cancelled after one of two contacts: the report counts one connection
C3_Witness ==
    /\ pc = "done" /\ Printed("interrupted")
    /\ Len(contacts) = 2 /\ num_results = 1
    /\ report.written /\ report.total_connections = 1

\* C4 -----------------------------------------------------------------

BeforeSort == pc \in {"for_test", "perform", "searched", "after_loop", "sort"}

\* what a consumer can read of a Result besides the contact it belongs to
Findings(r) == << r.total_mentions, r.hits, r.num_hits, ResultError(r) >>

\* C4: a Result carries an error exactly when its request failed terminally
\* (transport failure, or a status other than 200 and 429), so that a failed
\* lookup differs from a successful lookup with zero mentions.
C4_ErrorIffTerminalFailure ==
    BeforeSort =>
        /\ \A k \in 1..num_results :
             (ResultError(results[k]) # "null") <=> (outcomes[k] \in {"transport", "status"})
        /\ \A j, k \in 1..num_results :
             (outcomes[j] \in {"transport", "status"} /\ outcomes[k] = "success")
                 => Findings(results[j]) # Findings(results[k])

\* C5 -----------------------------------------------------------------

Trimmed(str) == DropTrailingSpaces(SkipLeadingSpaces(str))

\* the value a data row has in a column; empty when the row has no such column
ColumnValue(line, col) ==
    LET fields == SplitRow(Chomp(line))
    IN  IF col >= 0 /\ col < Len(fields) THEN fields[col + 1] ELSE <<>>

\* the non-blank lines after the header
DataRows(lines) ==
    SelectSeq(SubSeq(lines, HeaderIndex(lines) + 1, Len(lines)),
              LAMBDA l : Chomp(l) # <<>>)

\* a row with a first name, and a last name that is there without its credentials too
HasBothNames(line, cols) ==
    /\ Trimmed(ColumnValue(line, cols.first)) # <<>>
    /\ Trimmed(CutAtComma(SkipLeadingSpaces(ColumnValue(line, cols.last)))) # <<>>

\* a row whose first or last name is empty after trimming
LacksAName(line, cols) ==
    \/ Trimmed(ColumnValue(line, cols.first)) = <<>>
    \/ Trimmed(ColumnValue(line, cols.last)) = <<>>

\* C5: with a header row that has the First Name and Last Name columns, the
\* parser yields a Contact for exactly the data rows whose first and last
\* name are both non-empty after trimming, in row order, none left out and
\* none added (files with a last name that is only credentials aside).
C5_ContactsAreTheNamedRows ==
    (pc # "parse" /\ HeaderIndex(file) # 0) =>
        LET cols  == ColumnsOf(file[HeaderIndex(file)])
            rows  == DataRows(file)
            named == SelectSeq(rows, LAMBDA l : HasBothNames(l, cols))
        IN  (/\ cols.first >= 0 /\ cols.last >= 0
             /\ \A k \in 1..Len(rows) : HasBothNames(rows[k], cols) \/ LacksAName(rows[k], cols))
            => /\ Len(contacts) = Len(named)
               /\ \A k \in 1..Len(named) :
                    /\ k <= Len(contacts)
                    /\ Trimmed(contacts[k].first_name) = Trimmed(ColumnValue(named[k], cols.first))

\* C6 -----------------------------------------------------------------

\* C6: every Result has num_hits <= min(total_mentions, 100), whatever the
\* upstream sent (Results whose total_mentions is negative aside).
C6_HitsWithinMentionsAndCap ==
    \A k \in 1..Len(results) :
        results[k].total_mentions >= 0 =>
            /\ results[k].num_hits = Len(results[k].hits)
            /\ results[k].num_hits <= Min(results[k].total_mentions, MAX_HITS)

\* C7 -----------------------------------------------------------------

\* the entity of a reserved character
ReservedEntity(c) ==
    CASE c = "&"  -> <<"&", "a", "m", "p", ";">>
      [] c = "<"  -> <<"&", "l", "t", ";">>
      [] c = ">"  -> <<"&", "g", "t", ";">>
      [] c = "\"" -> <<"&", "q", "u", "o", "t", ";">>
      [] c = "'"  -> <<"&", "#", "3", "9", ";">>

Reserved == {"&", "<", ">", "\"", "'"}

\* where the k-th character of text starts in its escaped form
EscapedOffset(text, k) ==
    k + 4 * Cardinality({j \in 1..(k - 1) : text[j] = "&"})
      + 3 * Cardinality({j \in 1..(k - 1) : text[j] \in {"<", ">"}})
      + 5 * Cardinality({j \in 1..(k - 1) : text[j] = "\""})
      + 4 * Cardinality({j \in 1..(k - 1) : text[j] = "'"})

\* html is text with every reserved character as its entity, the rest as it is,
\* and holds no reserved character but the & of an entity
IsEscaped(html, text) ==
    /\ Len(html) = EscapedOffset(text, Len(text) + 1) - 1
    /\ \A k \in 1..Len(text) :
         LET at == EscapedOffset(text, k)
         IN  IF text[k] \in Reserved
             THEN SubSeq(html, at, at + Len(ReservedEntity(text[k])) - 1) = ReservedEntity(text[k])
             ELSE html[at] = text[k]
    /\ \A p \in 1..Len(html) :
         /\ html[p] \notin {"<", ">", "\"", "'"}
         /\ html[p] = "&" => \E k \in 1..Len(text) :
                               text[k] \in Reserved /\ EscapedOffset(text, k) = p

InfoText(r) ==
    IF r.position # <<>> /\ r.company # <<>>
    THEN r.position \o <<" ", "a", "t", " ">> \o r.company
    ELSE r.position \o r.company

\* item is Result r as the report itemizes it, every text escaped
RendersEscaped(item, r) ==
    /\ item.mentions = r.total_mentions
    /\ IsEscaped(item.name, r.name)
    /\ IsEscaped(item.info, InfoText(r))
    /\ Len(item.hits) = r.num_hits
    /\ \A j \in 1..r.num_hits :
         IsEscaped(item.hits[j].preview,
                   SubSeq(r.hits[j].content_preview, 1,
                          Min(Len(r.hits[j].content_preview), PREVIEW_SHOWN)))

\* C7: in the report every & < > " ' of a contact's name, company, position
\* and of a hit's preview is written as its entity, never raw, for every
\* itemized contact and every hit.
C7_ReportEscapesReserved ==
    report.written =>
        /\ \A k \in 1..Len(report.items) :
             \E j \in 1..num_results : RendersEscaped(report.items[k], results[j])
        /\ \A j \in 1..num_results :
             results[j].total_mentions > 0 =>
                 \E k \in 1..Len(report.items) : RendersEscaped(report.items[k], results[j])

\* a report that itemizes the contact Al O'N (A&B, <"V>) with the <script> hit
C7_Witness ==
    /\ report.written
    /\ Len(report.items) = 1
    /\ \E c \in Reserved : \E k \in 1..Len(results[1].name) : results[1].name[k] = c
    /\ Len(report.items[1].hits) = 2
    /\ results[1].hits[1].content_preview[1] = "<"
    /\ report.items[1].hits[1].preview[1] = "&"

\* C8 -----------------------------------------------------------------

\* C8: the report shows total_connections = the number of Results and
\* connections_with_mentions = the number with total_mentions > 0, and it
\* itemizes exactly the Results counted in connections_with_mentions.
C8_SummaryCountsAndListing ==
    report.written =>
        LET counted == SelectSeq(SubSeq(results, 1, num_results),
                                 LAMBDA r : r.total_mentions > 0)
        IN  /\ report.total_connections = num_results
            /\ report.connections_with_mentions = Len(counted)
            /\ Len(report.items) = report.connections_with_mentions
            /\ \A k \in 1..Len(report.items) :
                 /\ k <= Len(counted)
                 /\ report.items[k].name = html_escape_to(counted[k].name)
                 /\ report.items[k].mentions = counted[k].total_mentions

\* C9 -----------------------------------------------------------------

\* every contact has its Result, in input order
OneResultPerContact ==
    /\ num_results = Len(contacts)
    /\ Len(outcomes) = Len(contacts)
    /\ \A k \in 1..Len(contacts) :
         IF pc \in {"after_loop", "sort"} THEN results[k].name = contacts[k].full_name
         ELSE processed[k].name = contacts[k].full_name

\* C9: without cancellation (429 runs being finite), whatever the upstream
\* outcomes, the run has one Result per contact in input order when it sorts,
\* and it gets to the sort and to the report generation.
C9_NoContactFailureEndsTheRun ==
    /\ [](pc \in {"after_loop", "sort", "report", "summary", "done"} => OneResultPerContact)
    /\ <>(pc = "done" /\ Printed("writing_report") /\ Len(processed) = Len(contacts))

\* a run of two contacts, a transport failure and an HTTP 500, that got to its report
C9_Witness ==
    /\ pc = "done" /\ ~interrupted
    /\ outcomes = <<"transport", "status">>
    /\ num_results = 2
    /\ report.written

\* C10 ----------------------------------------------------------------

\* C10: when the output file cannot be opened the run ends in failure: it
\* neither says the report was saved nor exits with status 0.
C10_OutputFailureIsFatal ==
    (pc = "done" /\ Printed("error_cannot_open_output")) =>
        (~Printed("report_saved") /\ exit_code # 0)

\* C11 ----------------------------------------------------------------

\* the file has a line with both labels and that line has both columns
HeaderLocated(lines) ==
    /\ HeaderIndex(lines) # 0
    /\ ColumnsOf(lines[HeaderIndex(lines)]).first >= 0
    /\ ColumnsOf(lines[HeaderIndex(lines)]).last >= 0

\* the run has ended as a failure before the search began
AbortedBeforeSearch ==
    /\ pc = "done" /\ exit_code = 1
    /\ Printed("no_connections_found") /\ ~Printed("searching")
    /\ outcomes = <<>> /\ last_resp = NoResponse

\* C11: without a line holding both labels, or with a label's column not
\* located in that line, the run aborts as a failure before any request;
\* with such a header and both columns, parsing is no failure, whether or
\* not it yields any contact.
C11_MalformedFailsHeaderSucceeds ==
    /\ (pc = "parsed" /\ ~HeaderLocated(file)) => contacts = <<>>
    /\ (pc = "done" /\ ~HeaderLocated(file)) => AbortedBeforeSearch
    /\ (pc # "parse" /\ HeaderLocated(file)) => ~AbortedBeforeSearch

\* C12 ----------------------------------------------------------------

\* C12: a 429 is followed by a retry of the same request, without a bound,
\* and the retry loop ends on another outcome or on cancellation: once the
\* interrupt flag is set while a request is being retried, the search leaves
\* the retry loop.
C12_CancelEndsRetryLoop ==
    /\ [][(pc = "perform" /\ last_resp'.code = 429 /\ last_resp' # last_resp)
            => pc' = "perform" /\ i' = i]_vars
    /\ (interrupted /\ pc = "perform") ~> (pc # "perform")

\* C13 ----------------------------------------------------------------

\* the search of the contact in progress ended with a parsed success body
ReadSuccessBody ==
    /\ pc = "searched"
    /\ outcomes[Len(outcomes)] = "success"
    /\ last_resp.body.data.present

\* C13: total_mentions of every Result is never negative; after a success
\* it is the upstream's totalHits when that is a (whole) number and 0 when
\* totalHits is absent or no number.
C13_TotalMentionsNonNegative ==
    /\ \A k \in 1..Len(results) : results[k].total_mentions >= 0
    /\ ReadSuccessBody =>
          LET th == last_resp.body.data.totalHits
              tm == results[num_results + 1].total_mentions
          IN  /\ th.t # "number" => tm = 0
              /\ (th.t = "number" /\ th.tenths % 10 = 0) => tm * 10 = th.tenths

\* C14 ----------------------------------------------------------------

\* the contacts whose iteration has begun: their Result slot has their name
Begun == {k \in 1..Len(results) : results[k].name # <<>>}

\* the loop has been left
LoopLeft == pc \in {"after_loop", "sort", "report", "summary", "done"}

\* C14: once the interrupt flag is set no iteration begins and no request is
\* issued for a contact not yet begun, and every contact whose iteration had
\* begun, the one in progress at the signal too, has its Result when the
\* loop is left.
C14_NoNewContactAfterInterrupt ==
    /\ [][interrupted => /\ (pc # "perform" => pc' # "perform")
                         /\ (pc = "for_test" => pc' = "after_loop")
                         /\ (Begun # {} => Begun' = Begun)]_vars
    /\ [](LoopLeft => /\ Begun = 1..num_results
                      /\ Len(outcomes) = num_results
                      /\ (~interrupted => num_results = Len(contacts)))

\* the signal came during the first of two searches: that contact has its
\* Result in the report, the second was never begun
C14_Witness ==
    /\ pc = "summary" /\ interrupted
    /\ Len(contacts) = 2 /\ num_results = 1
    /\ Begun = {1}
    /\ outcomes = <<"success">>
    /\ report.written /\ report.total_connections = 1

\* C15 ----------------------------------------------------------------

\* the pacing sleeps so far
PacingSleeps == {k \in 1..Len(slept) : slept[k].kind = "pace"}

\* C15: contacts are searched one at a time; when the first request for a
\* contact after the first is made, exactly one pacing sleep per earlier
\* contact has been made, the latest sleep is the pacing sleep made since the
\* previous search ended, and it was made for the delay of that moment; no
\* pacing sleep follows the last contact.
C15_OnePacingSleepBetweenContacts ==
    /\ [][(pc = "for_test" /\ pc' = "perform" /\ i >= 1) =>
            /\ Cardinality(PacingSleeps) = i
            /\ slept[Len(slept)].kind = "pace"
            /\ slept[Len(slept)].delay = delay]_vars
    /\ [][Cardinality(PacingSleeps') > Cardinality(PacingSleeps) =>
            /\ pc = "searched" /\ num_results' = num_results + 1
            /\ slept' = Append(slept, slept'[Len(slept')])
            /\ slept'[Len(slept')].delay = delay]_vars
    /\ [](/\ Cardinality(PacingSleeps) <= num_results
          /\ Cardinality(PacingSleeps) <= Len(contacts) - 1
          /\ pc = "perform" => (num_results = i /\ live.curl = 1))
    /\ []((LoopLeft /\ ~interrupted) => Cardinality(PacingSleeps) = Len(contacts) - 1)

\* the second of two contacts is being searched after one pacing sleep, made
\* for the 0.5 s the delay had after the first contact's 429
C15_Witness ==
    /\ pc = "perform" /\ i = 1 /\ Len(contacts) = 2
    /\ retries = 1 /\ delay = 2 * InitialDelay
    /\ Len(slept) = 2
    /\ slept[1].kind = "backoff"
    /\ slept[2] = [kind |-> "pace", delay |-> 2 * InitialDelay,
                   usec |-> 2 * InitialDelay * USEC16_PER_TICK]

\* C16 ----------------------------------------------------------------

\* the delay is carried: only a 429 response changes it, so the value a
\* search ends with is the value the next search starts with, and it is
\* never set back to the initial 0.25 s
DelayCarried ==
    /\ [][delay' # delay =>
            /\ pc = "perform" /\ pc' = "perform"
            /\ last_resp'.code = 429
            /\ delay' # InitialDelay]_vars
    /\ [](delay >= InitialDelay)
    /\ []((pc = "for_test" /\ i >= 1 /\ retries >= 1) => delay # InitialDelay)

\* C16: the delay is carried across contacts, never reset between them, and
\* never decreases over the run.
C16_DelayIsRatchet ==
    /\ DelayCarried
    /\ [][delay' >= delay]_vars

\* C16 as the code has it: the delay is carried across contacts and never
\* reset between them; a 429 without a positive Retry-After doubles it, and a
\* 429 with a positive Retry-After sets it to that value, which lowers it
\* when the value is below the delay reached.
C16_DelayCarriedNotMonotonic ==
    /\ DelayCarried
    /\ [][delay' > delay =>
            \/ retry_after_value' <= 0 /\ delay' = 2 * delay
            \/ retry_after_value' > 0 /\ delay' = retry_after_value' * TicksPerSecond]_vars
    /\ [][delay' < delay =>
            /\ retry_after_value' > 0
            /\ delay' = retry_after_value' * TicksPerSecond]_vars

\* the second contact is searched with the 1 s that the first contact's
\* search ended with, after Retry-After: 5 and then Retry-After: 1
C16_Witness ==
    /\ pc = "perform" /\ i = 1
    /\ delay = TicksPerSecond
    /\ Len(slept) = 3
    /\ slept[1].kind = "backoff" /\ slept[1].delay = 5 * TicksPerSecond
    /\ slept[2].kind = "backoff" /\ slept[2].delay = TicksPerSecond
    /\ slept[3].kind = "pace" /\ slept[3].delay = TicksPerSecond

\* C17 ----------------------------------------------------------------

\* C17: search_epstein_files holds one handle and one response buffer while
\* it requests, and none once it has returned, however it returned: each is
\* released exactly once, and none was acquired when no handle was created.
C17_HandleAndBufferReleased ==
    /\ live.curl \in {0, 1} /\ live.buf \in {0, 1}
    /\ pc = "perform" => live = [curl |-> 1, buf |-> 1]
    /\ pc # "perform" => live = [curl |-> 0, buf |-> 0]

\* the second search has returned, after 429 retries; the two searches ended
\* on different exit paths and nothing is held
C17_Witness ==
    /\ pc = "searched" /\ i = 1
    /\ retries = MaxRetries
    /\ outcomes \in { <<"transport", "unparseable">>, <<"status", "success">>,
                      <<"no_handle", "not_success">> }
    /\ live = [curl |-> 0, buf |-> 0]

\* C18 ----------------------------------------------------------------

\* C18: only a 429 response changes the delay: a search that ends (on a
\* transport failure, a 200 or another status, with or without a
\* Retry-After header) ends with the delay it had; and a 429 without a
\* positive Retry-After of its own doubles the delay, whatever Retry-After an
\* earlier attempt had brought.
C18_OnlyA429ChangesDelay ==
    /\ [][pc' = "searched" => delay' = delay]_vars
    /\ [][delay' # delay => /\ pc = "perform" /\ pc' = "perform"
                            /\ last_resp'.kind = "http" /\ last_resp'.code = 429
                            /\ retries' = retries + 1]_vars
    /\ [][(retries' = retries + 1 /\ PositiveRetryAfterLines(last_resp'.headers) = {})
            => /\ retry_after_value' <= 0
               /\ delay' = 2 * delay]_vars

\* a 429 with Retry-After: 5 and then one without: 5 s, then 10 s; and the
\* search ended on a response that carried Retry-After, the delay staying 10 s
C18_Witness ==
    /\ pc = "searched" /\ retries = 2
    /\ Len(slept) = 2
    /\ slept[1].delay = 5 * TicksPerSecond
    /\ slept[2].delay = 10 * TicksPerSecond
    /\ last_resp.code # 429
    /\ retry_after_value = 5
    /\ delay = 10 * TicksPerSecond

\* C19 ----------------------------------------------------------------

\* C19: whatever the delay has become, by doubling or by a positive
\* Retry-After, every sleep is passed delay * 1000000 microseconds, the value
\* not wrapped or cut by its conversion to unsigned.
C19_SleepIsTheWholeDelay ==
    \A k \in 1..Len(slept) : slept[k].usec = slept[k].delay * USEC16_PER_TICK

=============================================================================
